---- MODULE Spec2Model ----
(***************************************************************************)
(* A model of PDF Toolkit v2 (src/pdf_toolkit.py): the page-range parser,  *)
(* the actions that take a range expression, and the visual organizer's    *)
(* page collection, with the worker threads and the progress queue that    *)
(* connect them to the UI thread.                                          *)
(*                                                                         *)
(* A text is a sequence of one-character strings.                          *)
(***************************************************************************)
EXTENDS Integers, Sequences, FiniteSets, TLC

(***************************************************************************)
(* Bounds of the model.                                                    *)
(***************************************************************************)
\* longest range text that is enumerated
MaxLen == 4
\* largest page count of a document that is enumerated
MaxPages == 2

\* the page count of the examples of the specification: parse("1-3,5", 10)
ExamplePages == 10

(***************************************************************************)
(* Characters.                                                             *)
(***************************************************************************)
Digits == {"0", "1", "2", "3", "4", "5", "6", "7", "8", "9"}

DigitVal(c) ==
  CASE c = "0" -> 0 [] c = "1" -> 1 [] c = "2" -> 2 [] c = "3" -> 3
    [] c = "4" -> 4 [] c = "5" -> 5 [] c = "6" -> 6 [] c = "7" -> 7
    [] c = "8" -> 8 [] c = "9" -> 9

\* the characters the enumerated texts are made of: digits, the two
\* separators, a space, a letter, and the sign and the digit separator that
\* Python's int() accepts
Alphabet == {"0", "1", "2", "3", "-", ",", " ", "x", "+", "_"}

Texts == UNION {[1..n -> Alphabet] : n \in 0..MaxLen}

ExampleTexts ==
  { <<"1", "-", "3", ",", "5">>,
    <<"1", "-", "1", "0", "0">>,
    <<>>,
    <<"-">>,
    <<"5", "-", "2">>,
    <<"1", "_", "0">>,
    <<"3", ",", " ", "-", "-", "5">> }

(***************************************************************************)
(* Python's str and int operations, as parse_ranges uses them.             *)
(***************************************************************************)
RECURSIVE LStrip(_)
LStrip(s) == IF s # <<>> /\ Head(s) = " " THEN LStrip(Tail(s)) ELSE s

RECURSIVE RStrip(_)
RStrip(s) ==
  IF s # <<>> /\ s[Len(s)] = " " THEN RStrip(SubSeq(s, 1, Len(s) - 1)) ELSE s

\* str.strip()
Strip(s) == RStrip(LStrip(s))

IsSpaceFree(c) == c # " "

\* str.replace(" ", "")
RemoveSpaces(s) == SelectSeq(s, IsSpaceFree)

\* the least index of sep in s, 0 when there is none (str.find, 1-based)
RECURSIVE FindFrom(_, _, _)
FindFrom(s, sep, i) ==
  IF i > Len(s) THEN 0 ELSE IF s[i] = sep THEN i ELSE FindFrom(s, sep, i + 1)

Find(s, sep) == FindFrom(s, sep, 1)

\* str.split(sep): always at least one piece
RECURSIVE Split(_, _)
Split(s, sep) ==
  LET i == Find(s, sep)
  IN  IF i = 0 THEN <<s>>
      ELSE <<SubSeq(s, 1, i - 1)>> \o Split(SubSeq(s, i + 1, Len(s)), sep)

\* the value of a string of digits and underscores, the underscores skipped
RECURSIVE DecimalFrom(_, _)
DecimalFrom(s, acc) ==
  IF s = <<>> THEN acc
  ELSE IF Head(s) = "_" THEN DecimalFrom(Tail(s), acc)
  ELSE DecimalFrom(Tail(s), 10 * acc + DigitVal(Head(s)))

\* the digits part of an integer literal: digits, single underscores between
IsIntBody(s) ==
  /\ s # <<>>
  /\ s[1] \in Digits
  /\ s[Len(s)] \in Digits
  /\ \A i \in 1..Len(s) : s[i] \in Digits \cup {"_"}
  /\ \A i \in 1..(Len(s) - 1) : ~(s[i] = "_" /\ s[i + 1] = "_")

\* int(s): surrounding whitespace, an optional sign, then the digits;
\* ok = FALSE stands for ValueError
PyInt(s) ==
  LET t == Strip(s)
      signed == t # <<>> /\ Head(t) \in {"+", "-"}
      body == IF signed THEN Tail(t) ELSE t
  IN  IF IsIntBody(body)
        THEN [ok |-> TRUE,
              val |-> IF signed /\ Head(t) = "-"
                        THEN 0 - DecimalFrom(body, 0)
                        ELSE DecimalFrom(body, 0)]
        ELSE [ok |-> FALSE, val |-> 0]

Min(a, b) == IF a < b THEN a ELSE b
Max(a, b) == IF a > b THEN a ELSE b

(***************************************************************************)
(* parse_ranges                                                            *)
(***************************************************************************)
IsNonEmpty(p) == Strip(p) # <<>>

\* parts = [p.strip() for p in text.replace(" ", "").split(",") if p.strip()]
StripEach(ps) == [i \in 1..Len(ps) |-> Strip(ps[i])]

Parts(text) == StripEach(SelectSeq(Split(RemoveSpaces(text), ","), IsNonEmpty))

\* Clamp without its upper limit
ClampBelowOnly(n, total) == Max(1, n)

\* start = max(1, min(total_pages, start))
Clamp(n, total) == Max(1, Min(total, n))

Raise(msg) == [raised |-> TRUE, error |-> msg, start |-> 0, end |-> 0]

\* the body of the loop for one part, up to the clamping
PartEndpoints(part, total) ==
  IF Find(part, "-") # 0
    THEN LET i == Find(part, "-")
             left == SubSeq(part, 1, i - 1)
             right == SubSeq(part, i + 1, Len(part))
             l == PyInt(left)
             r == PyInt(right)
         IN  IF left = <<>> /\ right = <<>> THEN Raise("Range '-' is not valid")
             ELSE IF left # <<>> /\ ~l.ok THEN Raise("Invalid characters in range")
             ELSE IF right # <<>> /\ ~r.ok THEN Raise("Invalid characters in range")
             ELSE [raised |-> FALSE, error |-> "",
                   start |-> IF left # <<>> THEN l.val ELSE 1,
                   end |-> IF right # <<>> THEN r.val ELSE total]
    ELSE LET n == PyInt(part)
         IN  IF ~n.ok THEN Raise("Invalid characters in page number")
             ELSE [raised |-> FALSE, error |-> "", start |-> n.val, end |-> n.val]

\* ParsePart without the test start > end
ParsePartUnordered(part, total) ==
  LET e == PartEndpoints(part, total)
  IN  IF e.raised THEN e
      ELSE [raised |-> FALSE, error |-> "",
            start |-> Clamp(e.start, total), end |-> Clamp(e.end, total)]

\* the whole body of the loop for one part
ParsePart(part, total) ==
  LET e == PartEndpoints(part, total)
      start == Clamp(e.start, total)
      end == Clamp(e.end, total)
  IN  IF e.raised THEN e
      ELSE IF start > end THEN Raise("Start page cannot be after end page")
      ELSE [raised |-> FALSE, error |-> "", start |-> start, end |-> end]

\* the loop over the parts: the first part that raises ends the call
RECURSIVE ParseLoop(_, _, _)
ParseLoop(parts, total, result) ==
  IF parts = <<>> THEN [raised |-> FALSE, error |-> "", result |-> result]
  ELSE LET p == ParsePart(Head(parts), total)
       IN  IF p.raised THEN [raised |-> TRUE, error |-> p.error, result |-> <<>>]
           ELSE ParseLoop(Tail(parts), total, Append(result, <<p.start, p.end>>))

parse_ranges(ranges_text, total) ==
  LET text == Strip(ranges_text)
  IN  IF text = <<>> THEN [raised |-> FALSE, error |-> "", result |-> <<>>]
      ELSE ParseLoop(Parts(text), total, <<>>)

(***************************************************************************)
(* Python's list operations, 0-based as in the source.                     *)
(***************************************************************************)
Range(ws) == {ws[i] : i \in 1..Len(ws)}

\* list.index(x): the 0-based position of x, which is in the list
IndexOf(ws, x) == (CHOOSE i \in 1..Len(ws) : ws[i] = x) - 1

\* list.insert(i, x): an index beyond the end appends, a negative index
\* counts from the end
PyInsert(ws, i, x) ==
  LET j == IF i < 0 THEN Max(0, Len(ws) + i) ELSE i
  IN  IF j >= Len(ws) THEN Append(ws, x)
      ELSE SubSeq(ws, 1, j) \o <<x>> \o SubSeq(ws, j + 1, Len(ws))

\* list.pop(i), the list that is left
PyPop(ws, i) == SubSeq(ws, 1, i) \o SubSeq(ws, i + 2, Len(ws))

\* list.remove(x), x in the list
PyRemove(ws, x) == PyPop(ws, IndexOf(ws, x))

(***************************************************************************)
(* State.                                                                  *)
(***************************************************************************)
VARIABLES
  \* a call of parse_ranges: its arguments, its position and its outcome
  call_text,
  call_total,
  call_pc,
  call_out,
  \* the PDF files on disk: path -> page count, -1 for a file that cannot
  \* be opened
  fs,
  \* MainApp: the status label, the progress indicator, the progress queue
  status,
  progress_var,
  progress_queue,
  \* whether the call of _poll_progress that after(200, ...) arms is pending
  poll_after,
  \* the message box shown last
  dialog,
  \* the worker threads run_worker started: slot -> thread
  threads,
  \* the callbacks registered with after() that have not run yet
  timers,
  \* SplitPage: the picked file ("" for none) and the text of the ranges entry
  split_path,
  ent,
  \* WatermarkPage: the picked file or folder and the text of the ranges entry
  wm_src,
  range_entry,
  \* OrganizePage: the collection, the cards ever created (a card is named
  \* by its position here), the selected card, the dragged card
  page_widgets,
  cards,
  selected_card,
  drag_item,
  \* the grid cell of every card that is laid out
  grid,
  \* the card whose thumbnail holds the pressed mouse button, 0 for none
  pressed,
  \* history: the organizer handler that ran last, and the numbers of cards
  \* put into and taken out of the collection since it was last emptied
  last,
  inserted,
  removed,
  \* history: how often each card's rotate button was clicked
  clicks

parseVars == <<call_text, call_total, call_pc, call_out>>

appVars == <<status, progress_var, progress_queue, dialog>>

pageVars == <<split_path, ent, wm_src, range_entry>>

orgVars == <<page_widgets, cards, selected_card, drag_item, grid, pressed>>

histVars == <<last, inserted, removed, clicks>>

vars == <<parseVars, fs, poll_after, appVars, pageVars, threads, timers, orgVars, histVars>>

NoOutcome == [raised |-> FALSE, error |-> "", result |-> <<>>]

(***************************************************************************)
(* Bounds of the organizer.                                                *)
(***************************************************************************)
\* cards that are ever created
MaxCards == 3
\* worker threads alive at a time
MaxThreads == 1
\* rows of the grid the pointer is moved over
MaxRows == 1
\* clicks on the rotate button of one card
MaxClicks == 5
\* worker threads alive at a time where jobs are started at will
MaxJobs == 2
\* events pending on the progress queue where the poll runs at any time
MaxQueue == 5

\* cards of the collection where the grid has more than one row
GridCards == 7

\* OrganizePage.grid_cols
grid_cols == 5

NoCard == 0

\* no file or folder is picked
NoPath == ""

\* insert_idx=None
NoIdx == -1

(***************************************************************************)
(* Messages and events.                                                    *)
(***************************************************************************)
Msg(text, i, total, name) == [text |-> text, i |-> i, total |-> total, name |-> name]

Text(text) == Msg(text, 0, 0, "")

Event(typ, payload) == [typ |-> typ, payload |-> payload]

NoDialog == [kind |-> "", title |-> "", msg |-> Text("")]

Dialog(kind, title, msg) == [kind |-> kind, title |-> title, msg |-> msg]

NoThread == [kind |-> "none"]

FreeSlots == {t \in DOMAIN threads : threads[t].kind = "none"}

\* MainApp.run_worker with the thread it starts
run_worker(thread) ==
  /\ FreeSlots # {}
  /\ status' = Text("Working...")
  /\ progress_var' = 0
  /\ threads' = [threads EXCEPT ![CHOOSE t \in FreeSlots : \A u \in FreeSlots : t <= u] = thread]

\* MainApp._poll_progress, one turn of its loop: the event is applied to
\* the indicator, the status label and the message box
Apply(e, ui) ==
  CASE e.typ = "progress" -> [ui EXCEPT !.progress_var = e.payload]
    [] e.typ = "status" -> [ui EXCEPT !.status = e.payload]
    [] e.typ = "done" ->
         [ui EXCEPT !.status = Text("Done"), !.progress_var = 0,
                    !.dialog = Dialog("info", "Success",
                      IF e.payload = Text("")
                        THEN Text("Operation completed successfully!")
                        ELSE e.payload)]
    [] e.typ = "error" ->
         [ui EXCEPT !.dialog = Dialog("error", "Error", e.payload),
                    !.status = Text("Error"), !.progress_var = 0]
    [] OTHER -> ui

\* a loop that takes the newest event first
RECURSIVE DrainNewestFirst(_, _)
DrainNewestFirst(q, ui) ==
  IF q = <<>> THEN ui ELSE Apply(Head(q), DrainNewestFirst(Tail(q), ui))

\* MainApp._poll_progress: the events of one tick applied in arrival order
RECURSIVE Drain(_, _)
Drain(q, ui) ==
  IF q = <<>> THEN ui ELSE Drain(Tail(q), Apply(Head(q), ui))

\* a poll that is armed again only when it showed no notice
RearmsUnlessNotice(q) == \A k \in 1..Len(q) : q[k].typ \notin {"done", "error"}

\* self.after(200, self._poll_progress), the last statement of the poll,
\* whatever the events q were that it applied
Rearms(q) == TRUE

_poll_progress ==
  /\ poll_after
  /\ progress_queue # <<>>
  /\ LET ui == Drain(progress_queue,
                 [status |-> status, progress_var |-> progress_var, dialog |-> dialog])
     IN  /\ status' = ui.status
         /\ progress_var' = ui.progress_var
         /\ dialog' = ui.dialog
  /\ progress_queue' = <<>>
  /\ poll_after' = Rearms(progress_queue)
  /\ UNCHANGED <<parseVars, fs, pageVars, threads, timers, orgVars, histVars>>

(***************************************************************************)
(* OrganizePage                                                            *)
(***************************************************************************)
\* a PageCard as it is created; highlight is the blue background that
\* PageCard.select gives it and PageCard.deselect takes away
Card(orig_index, source_path) ==
  [orig_index |-> orig_index, source_path |-> source_path, rotation |-> 0,
   highlight |-> FALSE]

\* deselect_all: the cards cs once the selected card sel is deselected
deselected(cs, sel) == IF sel # NoCard THEN [cs EXCEPT ![sel].highlight = FALSE] ELSE cs

\* a selection that leaves the card selected before as it is
select_card_only(cs, sel, card) == [cs EXCEPT ![card].highlight = TRUE]

\* select_card: the cards cs once card is selected, sel being selected before
select_card(cs, sel, card) ==
  [(IF sel # NoCard /\ sel # card THEN [cs EXCEPT ![sel].highlight = FALSE] ELSE cs)
     EXCEPT ![card].highlight = TRUE]

\* a layout that puts every card into one row
ReflowOneRow(ws, k, row, col) == [i \in 1..(Len(ws) - k + 1) |-> <<row, col + i - 1>>]

\* _reflow_grid: the cell of each card of ws from position k on, the next
\* free cell being (row, col)
RECURSIVE ReflowFrom(_, _, _, _)
ReflowFrom(ws, k, row, col) ==
  IF k > Len(ws) THEN <<>>
  ELSE <<<<row, col>>>> \o
       ReflowFrom(ws, k + 1,
                  IF col + 1 >= grid_cols THEN row + 1 ELSE row,
                  IF col + 1 >= grid_cols THEN 0 ELSE col + 1)

_reflow_grid(ws) == [c \in Range(ws) |-> ReflowFrom(ws, 1, 0, 0)[IndexOf(ws, c) + 1]]

Handler(op) ==
  [op |-> op, card |-> NoCard, idx |-> NoIdx, count |-> 0, target |-> NoIdx,
   current |-> NoIdx, reflow |-> FALSE, outcome |-> ""]

\* the pages a render hands over: the source pages 0..n-1 in order
PageData(path, n) == [i \in 1..n |-> Card(i - 1, path)]

\* the loop inserting every card at insert_idx itself
RECURSIVE InsertCardsAtIdx(_, _, _, _)
InsertCardsAtIdx(ws, insert_idx, first, n) ==
  IF n = 0 THEN ws
  ELSE InsertCardsAtIdx(PyInsert(ws, insert_idx, first), insert_idx, first + 1, n - 1)

\* the loop of _append_to_grid that inserts card number first+i at insert_idx+i
RECURSIVE InsertCards(_, _, _, _)
InsertCards(ws, insert_idx, first, n) ==
  IF n = 0 THEN ws
  ELSE InsertCards(PyInsert(ws, insert_idx, first), insert_idx + 1, first + 1, n - 1)

\* list.extend with the cards first .. first+n-1
ExtendCards(ws, first, n) == ws \o [i \in 1..n |-> first + i - 1]

\* load, target and before are history: whether the click that started the
\* render cleared the collection, and the card and the side of an insert
RenderThread(path, insert_idx) ==
  [kind |-> "render", pc |-> "open", path |-> path, insert_idx |-> insert_idx, i |-> 0,
   load |-> FALSE, target |-> NoCard, before |-> FALSE, errors |-> 0, dones |-> 0]

\* the cards the renders under way will still create
Reserved ==
  LET Pages(p) == IF fs[p] > 0 THEN fs[p] ELSE 0
      Busy == {t \in DOMAIN threads : threads[t].kind = "render"}
      RECURSIVE SumThreads(_)
      SumThreads(S) ==
        IF S = {} THEN 0
        ELSE LET t == CHOOSE u \in S : TRUE
             IN  (IF threads[t].pc = "finished" THEN 0 ELSE Pages(threads[t].path))
                 + SumThreads(S \ {t})
      RECURSIVE SumTimers(_)
      SumTimers(k) == IF k = 0 THEN 0 ELSE Len(timers[k].page_data) + SumTimers(k - 1)
  IN  SumThreads(Busy) + SumTimers(Len(timers))

\* the file dialog returns a file whose pages still fit the bound on cards
Pickable(p) ==
  /\ p \in DOMAIN fs
  /\ Len(cards) + Reserved + (IF fs[p] > 0 THEN fs[p] ELSE 0) <= MaxCards

insert_pages_here(p, before) ==
  /\ pressed = NoCard
  /\ selected_card # NoCard
  /\ selected_card \in Range(page_widgets)
  /\ Pickable(p)
  /\ LET idx == IndexOf(page_widgets, selected_card)
         insert_idx == IF before THEN idx ELSE idx + 1
     IN  /\ run_worker([RenderThread(p, insert_idx) EXCEPT
                          !.target = selected_card, !.before = before])
         /\ last' = [Handler("insert_pages_here") EXCEPT
                       !.card = selected_card, !.idx = insert_idx]
  /\ UNCHANGED <<parseVars, fs, poll_after, pageVars, progress_queue, dialog, timers, orgVars,
                 inserted, removed, clicks>>

load_pdf_clear(p) ==
  /\ pressed = NoCard
  /\ Pickable(p)
  /\ selected_card' = NoCard
  /\ page_widgets' = <<>>
  /\ grid' = <<>>
  /\ cards' = deselected(cards, selected_card)
  /\ run_worker([RenderThread(p, NoIdx) EXCEPT !.load = TRUE])
  /\ last' = Handler("load_pdf_clear")
  /\ inserted' = 0
  /\ removed' = 0
  /\ UNCHANGED <<parseVars, fs, poll_after, pageVars, progress_queue, dialog, timers,
                 drag_item, pressed, clicks>>

add_pdf_append(p) ==
  /\ pressed = NoCard
  /\ Pickable(p)
  /\ run_worker(RenderThread(p, NoIdx))
  /\ last' = Handler("add_pdf_append")
  /\ UNCHANGED <<parseVars, fs, poll_after, pageVars, progress_queue, dialog, timers, orgVars,
                 inserted, removed, clicks>>

\* _render_worker, fitz.open(path): a file that cannot be opened ends the
\* worker with an error event
RenderOpen(t) ==
  /\ threads[t].kind = "render"
  /\ threads[t].pc = "open"
  /\ IF fs[threads[t].path] < 0
       THEN /\ progress_queue' = Append(progress_queue,
                 Event("error", Msg("Could not render PDF", 0, 0, threads[t].path)))
            /\ threads' = [threads EXCEPT ![t].pc = "finished", ![t].errors = @ + 1]
       ELSE /\ threads' = [threads EXCEPT ![t].pc = "loop"]
            /\ UNCHANGED progress_queue
  /\ UNCHANGED <<parseVars, fs, poll_after, pageVars, status, progress_var, dialog, timers, orgVars, histVars>>

\* _render_worker, one page of the loop: rendered, then reported
RenderPage(t) ==
  /\ threads[t].kind = "render"
  /\ threads[t].pc = "loop"
  /\ threads[t].i < fs[threads[t].path]
  /\ LET i == threads[t].i
         total == fs[threads[t].path]
     IN  progress_queue' = progress_queue \o
           << Event("progress", ((i + 1) * 50) \div total),
              Event("status", Msg("Rendering", i + 1, total, threads[t].path)) >>
  /\ threads' = [threads EXCEPT ![t].i = @ + 1]
  /\ UNCHANGED <<parseVars, fs, poll_after, pageVars, status, progress_var, dialog, timers, orgVars, histVars>>

\* a timer that never takes the callback
afterNever(ts, callback) == ts

\* self.after(100, callback): the callback joins the timers ts that are due
after(ts, callback) == Append(ts, callback)

\* _render_worker, after the loop: self.after(100, _append_to_grid)
RenderSchedule(t) ==
  /\ threads[t].kind = "render"
  /\ threads[t].pc = "loop"
  /\ threads[t].i = fs[threads[t].path]
  /\ timers' = after(timers,
       [page_data |-> PageData(threads[t].path, fs[threads[t].path]),
        insert_idx |-> threads[t].insert_idx, load |-> threads[t].load,
        target |-> threads[t].target, before |-> threads[t].before])
  /\ threads' = [threads EXCEPT ![t].pc = "finished"]
  /\ UNCHANGED <<parseVars, fs, poll_after, pageVars, appVars, orgVars, histVars>>

\* WorkerThread.run returns
ThreadExit(t) ==
  /\ threads[t].kind # "none"
  /\ threads[t].pc = "finished"
  /\ threads' = [threads EXCEPT ![t] = NoThread]
  /\ UNCHANGED <<parseVars, fs, poll_after, pageVars, appVars, timers, orgVars, histVars>>

\* the collection after the insertion of _append_to_grid
Inserted(ws, insert_idx, first, n) ==
  IF insert_idx # NoIdx THEN InsertCards(ws, insert_idx, first, n)
  ELSE ExtendCards(ws, first, n)

\* _append_to_grid, the timer callback of the render that finished first
_append_to_grid ==
  /\ timers # <<>>
  /\ LET new_page_data == Head(timers).page_data
         insert_idx == Head(timers).insert_idx
         first == Len(cards) + 1
         n == Len(new_page_data)
     IN  /\ cards' = cards \o new_page_data
         /\ page_widgets' = Inserted(page_widgets, insert_idx, first, n)
         /\ last' = [Handler("_append_to_grid") EXCEPT
                       !.idx = insert_idx, !.count = n, !.card = first,
                       !.reflow = TRUE,
                       !.outcome = IF Head(timers).load THEN "load" ELSE ""]
         /\ inserted' = inserted + n
         /\ clicks' = clicks \o [i \in 1..n |-> 0]
  /\ grid' = _reflow_grid(page_widgets')
  /\ timers' = Tail(timers)
  /\ progress_queue' = progress_queue \o
       << Event("status", Text("Populating grid...")),
          Event("status", Text("Loaded.")),
          Event("progress", 0) >>
  /\ UNCHANGED <<parseVars, fs, poll_after, pageVars, status, progress_var, dialog, threads,
                 selected_card, drag_item, pressed, removed>>

\* PageCard.delete_me -> remove_page_card; card.destroy() leaves nothing of
\* the card on the screen
remove_page_card(card) ==
  /\ pressed = NoCard
  /\ card \in Range(page_widgets)
  /\ selected_card' = IF card = selected_card THEN NoCard ELSE selected_card
  /\ page_widgets' = IF card \in Range(page_widgets)
                       THEN PyRemove(page_widgets, card) ELSE page_widgets
  /\ grid' = _reflow_grid(page_widgets')
  /\ last' = [Handler("remove_page_card") EXCEPT !.card = card, !.reflow = TRUE]
  /\ removed' = removed + 1
  /\ cards' = [cards EXCEPT ![card].highlight = FALSE]
  /\ UNCHANGED <<parseVars, fs, poll_after, pageVars, appVars, threads, timers, drag_item,
                 pressed, inserted, clicks>>

\* a press on a card: PageCard.on_press -> on_drag_start, which selects the
\* card; only the thumbnail is bound to the motion and release events
on_drag_start(card, on_thumb) ==
  /\ pressed = NoCard
  /\ card \in Range(page_widgets)
  /\ selected_card' = card
  /\ cards' = select_card(cards, selected_card, card)
  /\ drag_item' = card
  /\ pressed' = IF on_thumb THEN card ELSE NoCard
  /\ last' = [Handler("on_drag_start") EXCEPT !.card = card]
  /\ UNCHANGED <<parseVars, fs, poll_after, pageVars, appVars, threads, timers, page_widgets,
                 grid, inserted, removed, clicks>>

\* a click on the empty space of the grid frame: deselect_all
deselect_all ==
  /\ pressed = NoCard
  /\ selected_card # NoCard
  /\ cards' = deselected(cards, selected_card)
  /\ selected_card' = NoCard
  /\ last' = Handler("deselect_all")
  /\ UNCHANGED <<parseVars, fs, poll_after, pageVars, appVars, threads, timers, page_widgets,
                 drag_item, grid, pressed, inserted, removed, clicks>>

\* the first card's width or height plus 10, or the fallback when the card
\* is not realized yet
CellSize(winfo, fallback) == IF winfo + 10 < 50 THEN fallback ELSE winfo + 10

\* an index that is not brought back into the collection
TargetIdxUnclamped(ws, x, y, winfo_width, winfo_height) ==
  Max(0, y \div CellSize(winfo_height, 250)) * grid_cols
    + Max(0, Min(grid_cols - 1, x \div CellSize(winfo_width, 170)))

\* the index the pointer is over
TargetIdx(ws, x, y, winfo_width, winfo_height) ==
  LET w_width == CellSize(winfo_width, 170)
      w_height == CellSize(winfo_height, 250)
      target_col == Max(0, Min(grid_cols - 1, x \div w_width))
      target_row == Max(0, y \div w_height)
      target_idx == target_row * grid_cols + target_col
  IN  IF target_idx >= Len(ws) THEN Len(ws) - 1 ELSE target_idx

\* a move that exchanges the dragged card with the card at the target
MoveSwap(ws, current_idx, target_idx) ==
  [ws EXCEPT ![current_idx + 1] = ws[target_idx + 1],
             ![target_idx + 1] = ws[current_idx + 1]]

\* a move to the right that counts the target before the card is taken out
MoveShifted(ws, current_idx, target_idx) ==
  PyInsert(PyPop(ws, current_idx),
           IF target_idx > current_idx THEN target_idx - 1 ELSE target_idx,
           ws[current_idx + 1])

\* a move that takes the dragged card out and does not put it back
MoveDrop(ws, current_idx, target_idx) == PyPop(ws, current_idx)

\* page_widgets.pop(current_idx); page_widgets.insert(target_idx, drag_item)
Move(ws, current_idx, target_idx) ==
  PyInsert(PyPop(ws, current_idx), target_idx, ws[current_idx + 1])

\* a test that lets every motion move the card
AlwaysMoves(target_idx, current_idx) == TRUE

\* if target_idx != current_idx
Moves(target_idx, current_idx) == target_idx # current_idx

\* the pointer positions and the sizes of the first card that are tried
PointerX == {-30} \cup {c * 170 + 5 : c \in 0..grid_cols}

PointerY == {-30} \cup {r * 250 + 5 : r \in 0..MaxRows}

\* width and height of the first card: not realized yet, or realized
WinfoSizes == {<<1, 1>>, <<160, 240>>}

\* not hasattr(self, 'drag_item') or not self.drag_item
NoDragItem(item) == item = NoCard

\* a test that takes every collection for a non-empty one
NoPagesNever(ws) == FALSE

\* not self.page_widgets
NoPages(ws) == ws = <<>>

\* on_drag_motion returns, or raises, before it has changed anything
DragMotionEnds(outcome) ==
  /\ last' = [Handler("on_drag_motion") EXCEPT !.outcome = outcome]
  /\ UNCHANGED <<page_widgets, grid>>

\* the body of on_drag_motion, the pointer being at (x, y) of the grid frame
DragMotion(x, y, winfo_width, winfo_height) ==
  /\ IF NoDragItem(drag_item) THEN DragMotionEnds("returned")
     ELSE IF NoPages(page_widgets) THEN DragMotionEnds("returned")
     ELSE IF Len(page_widgets) = 0 THEN DragMotionEnds("IndexError")
     ELSE IF drag_item \notin Range(page_widgets) THEN DragMotionEnds("ValueError")
     ELSE LET target_idx == TargetIdx(page_widgets, x, y, winfo_width, winfo_height)
              current_idx == IndexOf(page_widgets, drag_item)
          IN  /\ page_widgets' =
                   IF Moves(target_idx, current_idx)
                     THEN Move(page_widgets, current_idx, target_idx)
                     ELSE page_widgets
              /\ grid' = IF Moves(target_idx, current_idx)
                           THEN _reflow_grid(page_widgets') ELSE grid
              /\ last' = [Handler("on_drag_motion") EXCEPT
                            !.card = drag_item, !.target = target_idx,
                            !.current = current_idx,
                            !.reflow = Moves(target_idx, current_idx)]
  /\ UNCHANGED <<parseVars, fs, poll_after, pageVars, appVars, threads, timers, cards, selected_card,
                 drag_item, pressed, inserted, removed, clicks>>

\* PageCard.on_drag -> on_drag_motion: the window system sends the motion
\* to the thumbnail that holds the pressed button
on_drag_motion(x, y, winfo_width, winfo_height) ==
  /\ pressed # NoCard
  /\ DragMotion(x, y, winfo_width, winfo_height)

\* PageCard.on_release -> on_drag_stop
on_drag_stop ==
  /\ pressed # NoCard
  /\ drag_item' = NoCard
  /\ pressed' = NoCard
  /\ last' = Handler("on_drag_stop")
  /\ UNCHANGED <<parseVars, fs, poll_after, pageVars, appVars, threads, timers, page_widgets, cards,
                 selected_card, grid, inserted, removed, clicks>>

\* a rotation against the clock
RotatedBack(rotation) == rotation - 90

\* self.rotation += 90
Rotated(rotation) == rotation + 90

\* PageCard.rotate_cw: the click on a card's rotate button
rotate_cw(card) ==
  /\ pressed = NoCard
  /\ card \in Range(page_widgets)
  /\ clicks[card] < MaxClicks
  /\ cards' = [cards EXCEPT ![card].rotation = Rotated(@)]
  /\ clicks' = [clicks EXCEPT ![card] = @ + 1]
  /\ last' = [Handler("rotate_cw") EXCEPT !.card = card]
  /\ UNCHANGED <<parseVars, fs, poll_after, pageVars, appVars, threads, timers, page_widgets,
                 selected_card, drag_item, grid, pressed, inserted, removed>>

(***************************************************************************)
(* OrganizePage.save_pdf                                                   *)
(***************************************************************************)
\* the save job: i is the position of the list iterator, total the length the
\* job read when it started; written is the pages handed to the writer so far,
\* snapshot and rotations are the collection and the rotations of the cards
\* at the click on Save (both history)
SaveThread(out_ok) ==
  [kind |-> "save", pc |-> "start", i |-> 0, total |-> 0, out_ok |-> out_ok,
   written |-> <<>>, snapshot |-> page_widgets,
   rotations |-> [c \in 1..Len(cards) |-> cards[c].rotation],
   errors |-> 0, dones |-> 0]

\* the click on Save, the output file being chosen; out_ok tells whether
\* the file can be written
save_pdf(out_ok) ==
  /\ pressed = NoCard
  /\ IF page_widgets = <<>>
       THEN /\ last' = [Handler("save_pdf") EXCEPT !.outcome = "empty"]
            /\ UNCHANGED <<status, progress_var, threads>>
       ELSE /\ run_worker(SaveThread(out_ok))
            /\ last' = [Handler("save_pdf") EXCEPT !.outcome = "started"]
  /\ UNCHANGED <<parseVars, fs, poll_after, pageVars, progress_queue, dialog, timers, orgVars,
                 inserted, removed, clicks>>

\* save_pdf.job: total = len(self.page_widgets), and the loop is entered
SaveStart(t) ==
  /\ threads[t].kind = "save"
  /\ threads[t].pc = "start"
  /\ threads' = [threads EXCEPT ![t].pc = "loop", ![t].total = Len(page_widgets)]
  /\ UNCHANGED <<parseVars, fs, poll_after, pageVars, appVars, timers, orgVars, histVars>>

\* the stored rotation handed on as it is
SavedRotationUnreduced(rotation) == rotation

\* rot = card.rotation % 360
SavedRotation(rotation) == rotation % 360

\* the page of a card as the job hands it to the writer
SavedPage(card) ==
  [card |-> card, source_path |-> cards[card].source_path,
   orig_index |-> cards[card].orig_index, rot |-> SavedRotation(cards[card].rotation)]

\* save_pdf.job, one turn of the loop over self.page_widgets: the list
\* iterator takes the card that is at position i of the list now
SavePage(t) ==
  /\ threads[t].kind = "save"
  /\ threads[t].pc = "loop"
  /\ threads[t].i < Len(page_widgets)
  /\ LET i == threads[t].i
         total == threads[t].total
         card == page_widgets[i + 1]
     IN  IF total = 0
           THEN /\ threads' = [threads EXCEPT
                     ![t].pc = "finished", ![t].errors = @ + 1,
                     ![t].written = Append(@, SavedPage(card))]
                /\ progress_queue' = Append(progress_queue,
                     Event("error", Text("division by zero")))
           ELSE /\ threads' = [threads EXCEPT
                     ![t].i = @ + 1, ![t].written = Append(@, SavedPage(card))]
                /\ progress_queue' = progress_queue \o
                     << Event("progress", ((i + 1) * 100) \div total),
                        Event("status", Msg("Saving page", i + 1, total, "")) >>
  /\ UNCHANGED <<parseVars, fs, poll_after, pageVars, status, progress_var, dialog, timers,
                 orgVars, histVars>>

\* page = reader.pages[card.orig_index] with the reader cached per path: the
\* cards of one source page share one page object, and page.rotate(rot) adds
\* rot to the rotation that object has. The rotation of the page object when
\* the k-th page of ws is handed to writer.add_page
RECURSIVE PageRotation(_, _, _)
PageRotation(ws, k, j) ==
  IF j = 0 THEN 0
  ELSE PageRotation(ws, k, j - 1)
       + (IF /\ ws[j].source_path = ws[k].source_path
             /\ ws[j].orig_index = ws[k].orig_index
            THEN ws[j].rot ELSE 0)

\* the first page of ws that is the source page of its k-th page
FirstOfPage(ws, k) ==
  CHOOSE j \in 1..k :
    /\ ws[j].source_path = ws[k].source_path
    /\ ws[j].orig_index = ws[k].orig_index
    /\ \A h \in 1..(j - 1) : ws[h].source_path # ws[k].source_path
                              \/ ws[h].orig_index # ws[k].orig_index

\* the rotations the output can show for the k-th page of ws:
\* writer.add_page copies the page object as it is when it is added, or,
\* in a build whose writer copies a page object once, as it was when the
\* source page was added first
AddedRotations(ws, k) ==
  {PageRotation(ws, k, k) % 360,
   PageRotation(ws, FirstOfPage(ws, k), FirstOfPage(ws, k)) % 360}

\* save_pdf.job, after the loop: the output is written and announced, or
\* the exception is reported
SaveWrite(t) ==
  /\ threads[t].kind = "save"
  /\ threads[t].pc = "loop"
  /\ threads[t].i >= Len(page_widgets)
  /\ IF threads[t].out_ok
       THEN /\ progress_queue' = progress_queue \o
                 << Event("status", Text("Saved organized PDF")),
                    Event("done", Text("Saved organized PDF")) >>
            /\ threads' = [threads EXCEPT ![t].pc = "finished", ![t].dones = @ + 1]
       ELSE /\ progress_queue' = Append(progress_queue,
                 Event("error", Text("Permission denied")))
            /\ threads' = [threads EXCEPT ![t].pc = "finished", ![t].errors = @ + 1]
  /\ UNCHANGED <<parseVars, fs, poll_after, pageVars, status, progress_var, dialog, timers,
                 orgVars, histVars>>

(***************************************************************************)
(* SplitPage.extract                                                       *)
(***************************************************************************)
IsPdf(p) == p \in DOMAIN fs

\* [t.strip() for t in range_text.split(',') if t.strip()]
RangeStrings(range_text) == StripEach(SelectSeq(Split(range_text, ","), IsNonEmpty))

\* one turn of the loop of extract over the range strings, given what the
\* parser made of the string: its pages are fetched from the reader, which has
\* no page 0 in an empty document
CollectPages(parsed, total) ==
  IF parsed.raised THEN [outcome |-> "ValueError", error |-> parsed.error]
  ELSE IF \E i \in 1..Len(parsed.result) : parsed.result[i][2] > total
    THEN [outcome |-> "IndexError", error |-> "sequence index out of range"]
  ELSE [outcome |-> "collected", error |-> ""]

\* one turn of the loop: the string is parsed and its pages are collected
CollectOne(range_str, total) == CollectPages(parse_ranges(range_str, total), total)

\* the outcome of the loop from the outcomes of its turns: the first exception
\* ends it
FirstRaised(outcomes) ==
  LET failing == {i \in 1..Len(outcomes) : outcomes[i].outcome # "collected"}
  IN  IF failing = {} THEN [outcome |-> "collected", error |-> ""]
      ELSE outcomes[CHOOSE i \in failing : \A j \in failing : i <= j]

\* the loop of extract over the range strings
Collect(range_strs, total) ==
  FirstRaised([i \in 1..Len(range_strs) |-> CollectOne(range_strs[i], total)])

SplitThread(n, out_ok) ==
  [kind |-> "split", pc |-> "loop", i |-> 0, total |-> n, out_ok |-> out_ok,
   errors |-> 0, dones |-> 0]

\* a message box of extract, which then returns
ExtractShows(kind, title, text, outcome) ==
  /\ dialog' = Dialog(kind, title, Text(text))
  /\ last' = [Handler("extract") EXCEPT !.outcome = outcome]
  /\ UNCHANGED <<status, progress_var, threads>>

\* extract once a file is picked and ranges are typed: got is the outcome of
\* the loop over the n range strings
ExtractRanges(got, n, total, out_ok) ==
  IF total < 0
    THEN ExtractShows("error", "Error", "An error occurred", "error")
  ELSE IF got.outcome = "ValueError"
    THEN ExtractShows("error", "Invalid Range", got.error, "invalid range")
  ELSE IF got.outcome = "IndexError"
    THEN ExtractShows("error", "Error", "An error occurred", "error")
  ELSE IF n = 0
    THEN ExtractShows("warning", "Warning", "No pages matched", "no pages")
  ELSE /\ run_worker(SplitThread(n, out_ok))
       /\ last' = [Handler("extract") EXCEPT !.outcome = "started"]
       /\ UNCHANGED dialog

\* the range strings of the entry and the outcome of the loop over them
Ranges(range_text, total) ==
  [n |-> Len(RangeStrings(range_text)),
   got |-> Collect(RangeStrings(range_text), total)]

\* the click on Extract Ranges; out_ok tells whether files can be written to
\* the output folder that is chosen
extract(out_ok) ==
  /\ IF split_path = NoPath
       THEN ExtractShows("warning", "Warning", "Pick a PDF first", "no file")
     ELSE IF Strip(ent) = <<>>
       THEN ExtractShows("warning", "Warning", "Enter page ranges", "no text")
     ELSE \E r \in {Ranges(Strip(ent), fs[split_path])} :
            ExtractRanges(r.got, r.n, fs[split_path], out_ok)
  /\ UNCHANGED <<parseVars, fs, poll_after, pageVars, progress_queue, timers, orgVars,
                 inserted, removed, clicks>>

IsError(e) == e.typ = "error"

IsDone(e) == e.typ = "done"

\* the events a thread puts on the queue, counted by kind
Emit(t, events, pc) ==
  /\ progress_queue' = progress_queue \o events
  /\ threads' = [threads EXCEPT
       ![t].pc = pc,
       ![t].errors = @ + Len(SelectSeq(events, IsError)),
       ![t].dones = @ + Len(SelectSeq(events, IsDone))]

\* WorkerThread.run: an exception of the target becomes an error event
Caught(t, msg) == Emit(t, <<Event("error", Text(msg))>>, "finished")

Finish(t, msg) ==
  Emit(t, <<Event("status", Text(msg)), Event("done", Text(msg))>>, "finished")

\* job_multi_split, one file of the loop: reported, then written
SplitFile(t) ==
  /\ threads[t].kind = "split"
  /\ threads[t].pc = "loop"
  /\ threads[t].i < threads[t].total
  /\ LET idx == threads[t].i
         total_files == threads[t].total
         report == << Event("progress", (idx * 100) \div total_files),
                      Event("status", Msg("Writing split file", idx + 1, total_files, "")) >>
     IN  IF threads[t].out_ok
           THEN /\ progress_queue' = progress_queue \o report
                /\ threads' = [threads EXCEPT ![t].i = @ + 1]
           ELSE Emit(t, report \o <<Event("error", Text("Permission denied"))>>, "finished")
  /\ UNCHANGED <<parseVars, fs, poll_after, pageVars, status, progress_var, dialog, timers,
                 orgVars, histVars>>

\* job_multi_split, after the loop
SplitDone(t) ==
  /\ threads[t].kind = "split"
  /\ threads[t].pc = "loop"
  /\ threads[t].i = threads[t].total
  /\ Finish(t, "Split complete!")
  /\ UNCHANGED <<parseVars, fs, poll_after, pageVars, status, progress_var, dialog, timers,
                 orgVars, histVars>>

(***************************************************************************)
(* WatermarkPage.apply_to_single and apply_to_folder                       *)
(***************************************************************************)
\* the folder that can be picked, and what os.listdir finds in it
Folder == "folder"

Listings == {<<"b.pdf", "a.pdf">>, <<"a.pdf", "b.pdf">>, <<"bad.pdf", "a.pdf">>}

\* a range entry left empty stands for all pages and is not parsed
EntryRaises(text, total) == Strip(text) # <<>> /\ parse_ranges(text, total).raised

EntryError(text, total) == parse_ranges(text, total).error

WatermarkThread(total, out_ok) ==
  [kind |-> "watermark", pc |-> "parse", i |-> 0, total |-> total, out_ok |-> out_ok,
   raised |-> FALSE, errors |-> 0, dones |-> 0]

\* the click on Apply to Single PDF, the output file being chosen
apply_to_single(out_ok) ==
  /\ IF ~IsPdf(wm_src)
       THEN /\ dialog' = Dialog("warning", "Warning", Text("Pick a source PDF file first."))
            /\ last' = [Handler("apply_to_single") EXCEPT !.outcome = "no file"]
            /\ UNCHANGED <<status, progress_var, threads>>
     ELSE IF fs[wm_src] < 0
       THEN /\ dialog' = Dialog("error", "Error", Text("Failed reading source"))
            /\ last' = [Handler("apply_to_single") EXCEPT !.outcome = "error"]
            /\ UNCHANGED <<status, progress_var, threads>>
     ELSE /\ run_worker(WatermarkThread(fs[wm_src], out_ok))
          /\ last' = [Handler("apply_to_single") EXCEPT !.outcome = "started"]
          /\ UNCHANGED dialog
  /\ UNCHANGED <<parseVars, fs, poll_after, pageVars, progress_queue, timers, orgVars,
                 inserted, removed, clicks>>

\* apply_to_single.job, the range entry read and parsed by the worker
WatermarkParse(t) ==
  /\ threads[t].kind = "watermark"
  /\ threads[t].pc = "parse"
  /\ IF EntryRaises(range_entry, threads[t].total)
       THEN /\ progress_queue' = Append(progress_queue,
                 Event("error", Text(EntryError(range_entry, threads[t].total))))
            /\ threads' = [threads EXCEPT ![t].pc = "finished", ![t].raised = TRUE,
                                         ![t].errors = @ + 1]
       ELSE /\ threads' = [threads EXCEPT ![t].pc = "loop"]
            /\ UNCHANGED progress_queue
  /\ UNCHANGED <<parseVars, fs, poll_after, pageVars, status, progress_var, dialog, timers,
                 orgVars, histVars>>

\* apply_to_single.job, one page of the loop
WatermarkPageStep(t) ==
  /\ threads[t].kind = "watermark"
  /\ threads[t].pc = "loop"
  /\ threads[t].i < threads[t].total
  /\ LET idx == threads[t].i
         total == threads[t].total
     IN  progress_queue' = progress_queue \o
           << Event("progress", ((idx + 1) * 100) \div total),
              Event("status", Msg("Processing page", idx + 1, total, "")) >>
  /\ threads' = [threads EXCEPT ![t].i = @ + 1]
  /\ UNCHANGED <<parseVars, fs, poll_after, pageVars, status, progress_var, dialog, timers,
                 orgVars, histVars>>

\* apply_to_single.job, the output written after the loop
WatermarkWrite(t) ==
  /\ threads[t].kind = "watermark"
  /\ threads[t].pc = "loop"
  /\ threads[t].i = threads[t].total
  /\ IF threads[t].out_ok
       THEN Finish(t, "Watermark applied successfully!")
       ELSE Caught(t, "Permission denied")
  /\ UNCHANGED <<parseVars, fs, poll_after, pageVars, status, progress_var, dialog, timers,
                 orgVars, histVars>>

BatchThread(pdfs, out_ok) ==
  [kind |-> "batch", pc |-> "loop", i |-> 0, total |-> Len(pdfs), pdfs |-> pdfs,
   out_ok |-> out_ok, raised |-> FALSE, errors |-> 0, dones |-> 0]

\* the click on Apply to Folder, the output folder being chosen; pdfs is
\* what the source folder holds
apply_to_folder(pdfs, out_ok) ==
  /\ IF wm_src # Folder
       THEN /\ dialog' = Dialog("warning", "Warning", Text("Pick a folder first (Batch)."))
            /\ last' = [Handler("apply_to_folder") EXCEPT !.outcome = "no folder"]
            /\ UNCHANGED <<status, progress_var, threads>>
     ELSE /\ run_worker(BatchThread(pdfs, out_ok))
          /\ last' = [Handler("apply_to_folder") EXCEPT !.outcome = "started"]
          /\ UNCHANGED dialog
  /\ UNCHANGED <<parseVars, fs, poll_after, pageVars, progress_queue, timers, orgVars,
                 inserted, removed, clicks>>

\* apply_to_folder.job, one file of the loop: a file that cannot be read or
\* written is skipped, a range that cannot be parsed ends the job
BatchFile(t) ==
  /\ threads[t].kind = "batch"
  /\ threads[t].pc = "loop"
  /\ threads[t].i < threads[t].total
  /\ LET idx == threads[t].i + 1
         total_files == threads[t].total
         p == threads[t].pdfs[idx]
     IN  IF fs[p] >= 0 /\ EntryRaises(range_entry, fs[p])
           THEN /\ progress_queue' = Append(progress_queue,
                     Event("error", Text(EntryError(range_entry, fs[p]))))
                /\ threads' = [threads EXCEPT ![t].pc = "finished", ![t].raised = TRUE,
                                             ![t].errors = @ + 1]
           ELSE /\ progress_queue' = progress_queue \o
                     << Event("progress", (idx * 100) \div total_files),
                        Event("status", Msg("Processed", idx, total_files, "")) >>
                /\ threads' = [threads EXCEPT ![t].i = @ + 1]
  /\ UNCHANGED <<parseVars, fs, poll_after, pageVars, status, progress_var, dialog, timers,
                 orgVars, histVars>>

\* apply_to_folder.job, after the loop
BatchDone(t) ==
  /\ threads[t].kind = "batch"
  /\ threads[t].pc = "loop"
  /\ threads[t].i = threads[t].total
  /\ Finish(t, "Batch watermark complete!")
  /\ UNCHANGED <<parseVars, fs, poll_after, pageVars, status, progress_var, dialog, timers,
                 orgVars, histVars>>

\* the user types into the watermark page's range entry
type_range(text) ==
  /\ range_entry # text
  /\ range_entry' = text
  /\ UNCHANGED <<parseVars, fs, poll_after, appVars, split_path, ent, wm_src, threads, timers,
                 orgVars, histVars>>

(***************************************************************************)
(* Initial states.                                                         *)
(***************************************************************************)
InitApp ==
  /\ status = Text("Ready")
  /\ progress_var = 0
  /\ progress_queue = <<>>
  /\ poll_after = TRUE
  /\ dialog = NoDialog
  /\ threads = [t \in 1..MaxThreads |-> NoThread]
  /\ timers = <<>>

\* no file is picked and no range is typed
InitPages ==
  /\ split_path = NoPath
  /\ ent = <<>>
  /\ wm_src = NoPath
  /\ range_entry = <<>>

InitOrganize ==
  /\ page_widgets = <<>>
  /\ cards = <<>>
  /\ selected_card = NoCard
  /\ drag_item = NoCard
  /\ grid = <<>>
  /\ pressed = NoCard
  /\ last = Handler("")
  /\ inserted = 0
  /\ removed = 0
  /\ clicks = <<>>

NoCall ==
  /\ call_text = <<>>
  /\ call_total = 0
  /\ call_pc = "none"
  /\ call_out = NoOutcome

(***************************************************************************)
(* A call of parse_ranges on every enumerated input.                       *)
(***************************************************************************)
ParseInputs ==
  (Texts \X (0..MaxPages)) \cup (ExampleTexts \X {ExamplePages})

InitParse ==
  /\ \E in \in ParseInputs : call_text = in[1] /\ call_total = in[2]
  /\ call_pc = "call"
  /\ call_out = NoOutcome
  /\ fs = <<>>
  /\ InitApp
  /\ InitPages
  /\ InitOrganize

\* parse_ranges returns its list
ParseReturn ==
  /\ call_pc = "call"
  /\ ~parse_ranges(call_text, call_total).raised
  /\ call_out' = parse_ranges(call_text, call_total)
  /\ call_pc' = "returned"
  /\ UNCHANGED <<call_text, call_total, fs, poll_after, pageVars, appVars, threads, timers, orgVars, histVars>>

\* parse_ranges raises ValueError
ParseRaise ==
  /\ call_pc = "call"
  /\ parse_ranges(call_text, call_total).raised
  /\ call_out' = parse_ranges(call_text, call_total)
  /\ call_pc' = "raised"
  /\ UNCHANGED <<call_text, call_total, fs, poll_after, pageVars, appVars, threads, timers, orgVars, histVars>>

NextParse == ParseReturn \/ ParseRaise

SpecParse == InitParse /\ [][NextParse]_vars

(***************************************************************************)
(* The organizer: a two-page file, a one-page file and a file that cannot  *)
(* be opened; the progress poll runs before anything else once events are  *)
(* pending.                                                                *)
(***************************************************************************)
OrganizeFiles == [p \in {"a.pdf", "b.pdf", "bad.pdf"} |->
                    IF p = "a.pdf" THEN 2 ELSE IF p = "b.pdf" THEN 1 ELSE -1]

Init ==
  /\ NoCall
  /\ fs = OrganizeFiles
  /\ InitApp
  /\ InitPages
  /\ InitOrganize

\* no event is pending: the poll has applied whatever was put on the queue
Polled == progress_queue = <<>>

Next ==
  \/ _poll_progress
  \/ \E p \in DOMAIN fs : Polled /\ load_pdf_clear(p)
  \/ \E p \in DOMAIN fs : Polled /\ add_pdf_append(p)
  \/ \E p \in DOMAIN fs, before \in BOOLEAN : Polled /\ insert_pages_here(p, before)
  \/ \E t \in 1..MaxThreads : Polled /\ RenderOpen(t)
  \/ \E t \in 1..MaxThreads : Polled /\ RenderPage(t)
  \/ \E t \in 1..MaxThreads : Polled /\ RenderSchedule(t)
  \/ \E t \in 1..MaxThreads : Polled /\ ThreadExit(t)
  \/ Polled /\ _append_to_grid
  \/ \E card \in 1..MaxCards : Polled /\ remove_page_card(card)
  \/ \E card \in 1..MaxCards, on_thumb \in BOOLEAN :
       Polled /\ on_drag_start(card, on_thumb)
  \/ \E x \in PointerX, y \in PointerY, wh \in WinfoSizes :
       Polled /\ on_drag_motion(x, y, wh[1], wh[2])
  \/ Polled /\ on_drag_stop

Spec == Init /\ [][Next]_vars

\* the same, with clicks on the empty space of the grid
NextSelect ==
  \/ Next
  \/ Polled /\ deselect_all

SpecSelect == Init /\ [][NextSelect]_vars

(***************************************************************************)
(* The organizer with files loaded and appended and pages rotated.         *)
(***************************************************************************)
NextRotate ==
  \/ _poll_progress
  \/ \E p \in DOMAIN fs : Polled /\ load_pdf_clear(p)
  \/ \E p \in DOMAIN fs : Polled /\ add_pdf_append(p)
  \/ \E t \in 1..MaxThreads : Polled /\ RenderOpen(t)
  \/ \E t \in 1..MaxThreads : Polled /\ RenderPage(t)
  \/ \E t \in 1..MaxThreads : Polled /\ RenderSchedule(t)
  \/ \E t \in 1..MaxThreads : Polled /\ ThreadExit(t)
  \/ Polled /\ _append_to_grid
  \/ \E card \in 1..MaxCards : Polled /\ rotate_cw(card)

SpecRotate == Init /\ [][NextRotate]_vars

(***************************************************************************)
(* The organizer with Save: a.pdf was loaded; its cards are removed and    *)
(* dragged, the first card is rotated, and the collection is saved, all of *)
(* it also while a save job runs.                                          *)
(***************************************************************************)
\* the organizer after load_pdf_clear("a.pdf"), the render, its
\* _append_to_grid callback and the polls
Loaded ==
  /\ status = Text("Loaded.")
  /\ progress_var = 0
  /\ progress_queue = <<>>
  /\ poll_after = TRUE
  /\ dialog = NoDialog
  /\ threads = [t \in 1..MaxThreads |-> NoThread]
  /\ timers = <<>>
  /\ page_widgets = <<1, 2>>
  /\ cards = PageData("a.pdf", 2)
  /\ selected_card = NoCard
  /\ drag_item = NoCard
  /\ grid = _reflow_grid(<<1, 2>>)
  /\ pressed = NoCard
  /\ last = [Handler("_append_to_grid") EXCEPT
               !.idx = NoIdx, !.count = 2, !.card = 1, !.reflow = TRUE,
               !.outcome = "load"]
  /\ inserted = 2
  /\ removed = 0
  /\ clicks = <<0, 0>>

InitSave ==
  /\ NoCall
  /\ fs = OrganizeFiles
  /\ InitPages
  /\ Loaded

\* the pointer over the first cells of the first row
SavePointerX == {c * 170 + 5 : c \in 0..1}

\* the card whose rotate button is clicked
RotatedCard == 1

NextSave ==
  \/ _poll_progress
  \/ \E t \in DOMAIN threads : Polled /\ ThreadExit(t)
  \/ \E card \in 1..MaxCards : Polled /\ remove_page_card(card)
  \/ Polled /\ rotate_cw(RotatedCard)
  \/ \E card \in 1..MaxCards : Polled /\ on_drag_start(card, TRUE)
  \/ \E x \in SavePointerX : Polled /\ on_drag_motion(x, 5, 160, 240)
  \/ Polled /\ on_drag_stop
  \/ \E out_ok \in BOOLEAN : Polled /\ save_pdf(out_ok)
  \/ \E t \in DOMAIN threads : Polled /\ SaveStart(t)
  \/ \E t \in DOMAIN threads : Polled /\ SavePage(t)
  \/ \E t \in DOMAIN threads : Polled /\ SaveWrite(t)

SpecSave == InitSave /\ [][NextSave]_vars

(***************************************************************************)
(* The organizer with the one page of b.pdf in the collection twice: b.pdf *)
(* was opened and then added again.                                        *)
(***************************************************************************)
\* the state after Open of b.pdf, Add PDF of b.pdf, the renders, the grid
\* updates and the poll
LoadedTwice ==
  /\ status = Text("Loaded.")
  /\ progress_var = 0
  /\ progress_queue = <<>>
  /\ poll_after = TRUE
  /\ dialog = NoDialog
  /\ threads = [t \in 1..MaxThreads |-> NoThread]
  /\ timers = <<>>
  /\ page_widgets = <<1, 2>>
  /\ cards = PageData("b.pdf", 1) \o PageData("b.pdf", 1)
  /\ selected_card = NoCard
  /\ drag_item = NoCard
  /\ grid = _reflow_grid(<<1, 2>>)
  /\ pressed = NoCard
  /\ last = [Handler("_append_to_grid") EXCEPT
               !.idx = NoIdx, !.count = 1, !.card = 2, !.reflow = TRUE]
  /\ inserted = 2
  /\ removed = 0
  /\ clicks = <<0, 0>>

InitTwice ==
  /\ NoCall
  /\ fs = OrganizeFiles
  /\ InitPages
  /\ LoadedTwice

SpecTwice == InitTwice /\ [][NextSave]_vars

(***************************************************************************)
(* The organizer's jobs: files are loaded and appended and the collection  *)
(* is saved, each click starting its job whatever else is running.         *)
(***************************************************************************)
InitJobs ==
  /\ NoCall
  /\ fs = OrganizeFiles
  /\ status = Text("Ready")
  /\ progress_var = 0
  /\ progress_queue = <<>>
  /\ poll_after = TRUE
  /\ dialog = NoDialog
  /\ threads = [t \in 1..MaxJobs |-> NoThread]
  /\ timers = <<>>
  /\ InitPages
  /\ InitOrganize

NextJobs ==
  \/ _poll_progress
  \/ \E p \in DOMAIN fs : Polled /\ load_pdf_clear(p)
  \/ \E p \in DOMAIN fs : Polled /\ add_pdf_append(p)
  \/ \E t \in DOMAIN threads : Polled /\ RenderOpen(t)
  \/ \E t \in DOMAIN threads : Polled /\ RenderPage(t)
  \/ \E t \in DOMAIN threads : Polled /\ RenderSchedule(t)
  \/ \E t \in DOMAIN threads : Polled /\ ThreadExit(t)
  \/ Polled /\ _append_to_grid
  \/ Polled /\ save_pdf(TRUE)
  \/ \E t \in DOMAIN threads : Polled /\ SaveStart(t)
  \/ \E t \in DOMAIN threads : Polled /\ SavePage(t)
  \/ \E t \in DOMAIN threads : Polled /\ SaveWrite(t)

SpecJobs == InitJobs /\ [][NextJobs]_vars

(***************************************************************************)
(* The progress queue: files are appended and the collection is saved, and *)
(* the poll ticks at any time, also while events are put on the queue.     *)
(***************************************************************************)
\* the queue has room for the events of one more step
Room == Len(progress_queue) + 3 <= MaxQueue

NextQueue ==
  \/ _poll_progress
  \/ \E p \in DOMAIN fs : add_pdf_append(p)
  \/ \E t \in DOMAIN threads : Room /\ RenderOpen(t)
  \/ \E t \in DOMAIN threads : Room /\ RenderPage(t)
  \/ \E t \in DOMAIN threads : RenderSchedule(t)
  \/ \E t \in DOMAIN threads : ThreadExit(t)
  \/ Room /\ _append_to_grid
  \/ \E out_ok \in BOOLEAN : save_pdf(out_ok)
  \/ \E t \in DOMAIN threads : SaveStart(t)
  \/ \E t \in DOMAIN threads : Room /\ SavePage(t)
  \/ \E t \in DOMAIN threads : Room /\ SaveWrite(t)

SpecQueue == Init /\ [][NextQueue]_vars

\* the same, with the timer of Tk running the poll whenever it is armed
SpecPoll == Init /\ [][NextQueue]_vars /\ WF_vars(_poll_progress)

(***************************************************************************)
(* The organizer with a collection that fills more than one row of the     *)
(* grid: c.pdf is loaded, cards are deleted and one card is dragged.  The  *)
(* motion handler is called in every state, also when nothing is dragged   *)
(* and when the collection is empty.                                       *)
(***************************************************************************)
GridFile == "c.pdf"

GridFiles == [p \in DOMAIN OrganizeFiles \cup {GridFile} |->
                IF p = GridFile THEN GridCards ELSE OrganizeFiles[p]]

\* the state after Open of c.pdf, its render, the grid update and the poll
LoadedGrid ==
  /\ status = Text("Loaded.")
  /\ progress_var = 0
  /\ progress_queue = <<>>
  /\ poll_after = TRUE
  /\ dialog = NoDialog
  /\ threads = [t \in 1..MaxThreads |-> NoThread]
  /\ timers = <<>>
  /\ page_widgets = [i \in 1..GridCards |-> i]
  /\ cards = PageData(GridFile, GridCards)
  /\ selected_card = NoCard
  /\ drag_item = NoCard
  /\ grid = _reflow_grid(page_widgets)
  /\ pressed = NoCard
  /\ last = [Handler("_append_to_grid") EXCEPT
               !.idx = NoIdx, !.count = GridCards, !.card = 1, !.reflow = TRUE,
               !.outcome = "load"]
  /\ inserted = GridCards
  /\ removed = 0
  /\ clicks = [i \in 1..GridCards |-> 0]

InitGrid ==
  /\ NoCall
  /\ fs = GridFiles
  /\ InitPages
  /\ LoadedGrid

\* the card that is pressed and dragged
DraggedCard == 1

\* the pointer above the grid, in each of its rows and below the last row
GridPointerY == PointerY \cup {(MaxRows + 1) * 250 + 5}

\* the first card not realized, realized, and realized at a smaller size
GridWinfoSizes == WinfoSizes \cup {<<90, 140>>}

NextGrid ==
  \/ \E card \in 1..GridCards : remove_page_card(card)
  \/ \E on_thumb \in BOOLEAN : on_drag_start(DraggedCard, on_thumb)
  \/ \E x \in PointerX, y \in GridPointerY, wh \in GridWinfoSizes :
       DragMotion(x, y, wh[1], wh[2])
  \/ on_drag_stop

SpecGrid == InitGrid /\ [][NextGrid]_vars

(***************************************************************************)
(* The actions that take a range expression: a file or the folder is       *)
(* picked and the ranges are typed, then Extract Ranges, Apply to Single   *)
(* PDF and Apply to Folder are clicked; the watermark range entry is       *)
(* edited at any time.                                                     *)
(***************************************************************************)
RangeTexts == { <<>>, <<"1">>, <<"2", "-", "1">>, <<"x">>, <<"1", ",", "-">> }

InitRange ==
  /\ NoCall
  /\ fs = OrganizeFiles
  /\ InitApp
  /\ split_path \in {NoPath} \cup DOMAIN fs
  /\ ent \in RangeTexts
  /\ wm_src \in {NoPath, Folder} \cup DOMAIN fs
  /\ range_entry \in RangeTexts
  /\ InitOrganize

NextRange ==
  \/ _poll_progress
  \/ \E out_ok \in BOOLEAN : Polled /\ extract(out_ok)
  \/ \E t \in 1..MaxThreads : Polled /\ SplitFile(t)
  \/ \E t \in 1..MaxThreads : Polled /\ SplitDone(t)
  \/ \E out_ok \in BOOLEAN : Polled /\ apply_to_single(out_ok)
  \/ \E t \in 1..MaxThreads : Polled /\ WatermarkParse(t)
  \/ \E t \in 1..MaxThreads : Polled /\ WatermarkPageStep(t)
  \/ \E t \in 1..MaxThreads : Polled /\ WatermarkWrite(t)
  \/ \E pdfs \in Listings, out_ok \in BOOLEAN : Polled /\ apply_to_folder(pdfs, out_ok)
  \/ \E t \in 1..MaxThreads : Polled /\ BatchFile(t)
  \/ \E t \in 1..MaxThreads : Polled /\ BatchDone(t)
  \/ \E t \in 1..MaxThreads : Polled /\ ThreadExit(t)
  \/ \E text \in RangeTexts : Polled /\ type_range(text)

SpecRange == InitRange /\ [][NextRange]_vars

(***************************************************************************)
(* The range grammar of the specification, stated on its own: tokens are   *)
(* the non-empty comma-separated pieces of the text, spaces ignored; a     *)
(* token is N, A-B, -B or A-, with N, A and B plain decimal numbers.       *)
(***************************************************************************)
RECURSIVE TokensOf(_, _, _)
TokensOf(s, cur, acc) ==
  LET closed == IF cur = <<>> THEN acc ELSE Append(acc, cur)
  IN  IF s = <<>> THEN closed
      ELSE IF Head(s) = " " THEN TokensOf(Tail(s), cur, acc)
      ELSE IF Head(s) = "," THEN TokensOf(Tail(s), <<>>, closed)
      ELSE TokensOf(Tail(s), Append(cur, Head(s)), acc)

Tokens(text) == TokensOf(text, <<>>, <<>>)

Dashes(t) == {i \in 1..Len(t) : t[i] = "-"}

HasDash(t) == Dashes(t) # {}

FirstDash(t) == CHOOSE i \in Dashes(t) : \A j \in Dashes(t) : i <= j

LeftOf(t) == SubSeq(t, 1, FirstDash(t) - 1)

RightOf(t) == SubSeq(t, FirstDash(t) + 1, Len(t))

IsPageNumber(s) == s # <<>> /\ \A i \in 1..Len(s) : s[i] \in Digits

RECURSIVE Pow10(_)
Pow10(k) == IF k = 0 THEN 1 ELSE 10 * Pow10(k - 1)

RECURSIVE NumberFrom(_, _)
NumberFrom(s, i) ==
  IF i > Len(s) THEN 0
  ELSE DigitVal(s[i]) * Pow10(Len(s) - i) + NumberFrom(s, i + 1)

NumberOf(s) == NumberFrom(s, 1)

IsSingle(t) == IsPageNumber(t)

IsRange(t) ==
  /\ Cardinality(Dashes(t)) = 1
  /\ LeftOf(t) = <<>> \/ IsPageNumber(LeftOf(t))
  /\ RightOf(t) = <<>> \/ IsPageNumber(RightOf(t))
  /\ ~(LeftOf(t) = <<>> /\ RightOf(t) = <<>>)

WellFormed(t) == IsSingle(t) \/ IsRange(t)

IsBareDash(t) == t = <<"-">>

\* the positions of a token where a page number is expected
NumberPositions(t) == IF HasDash(t) THEN {LeftOf(t), RightOf(t)} ELSE {t}

InRange(n, total) == IF n < 1 THEN 1 ELSE IF n > total THEN total ELSE n

WantedStart(t, total) ==
  IF IsSingle(t) THEN NumberOf(t)
  ELSE IF LeftOf(t) = <<>> THEN 1 ELSE NumberOf(LeftOf(t))

WantedEnd(t, total) ==
  IF IsSingle(t) THEN NumberOf(t)
  ELSE IF RightOf(t) = <<>> THEN total ELSE NumberOf(RightOf(t))

WantedPair(t, total) ==
  <<InRange(WantedStart(t, total), total), InRange(WantedEnd(t, total), total)>>

\* a token A-B, -B or A- whose start is after its end once both are clamped
IsContradictory(t, total) ==
  /\ total >= 1
  /\ IsRange(t)
  /\ WantedPair(t, total)[1] > WantedPair(t, total)[2]

AllTokens(text, P(_)) == \A i \in 1..Len(Tokens(text)) : P(Tokens(text)[i])

SomeToken(text, P(_)) == \E i \in 1..Len(Tokens(text)) : P(Tokens(text)[i])

CallContradictory(t) == IsContradictory(t, call_total)

CallNotContradictory(t) == ~IsContradictory(t, call_total)

CallEnded == call_pc \in {"returned", "raised"}

CallIs(text, total) == CallEnded /\ call_text = text /\ call_total = total

(***************************************************************************)
(* C1: for a page count of at least 1 and a text whose tokens are all of   *)
(* the form N, A-B, -B or A- (none with its start after its end, which is  *)
(* the error case of C3), parse_ranges returns one pair per token, in      *)
(* token order: N gives (N, N), a missing A is 1, a missing B is the page  *)
(* count, each endpoint clamped into [1, page count]; an empty or blank    *)
(* text gives the empty list. parse("1-3,5", 10) = [(1,3),(5,5)],          *)
(* parse("1-100", 10) = [(1,10)], parse("", 10) = [].                      *)
(***************************************************************************)
C1_ParseResult ==
  /\ ( /\ CallEnded
       /\ call_total >= 1
       /\ AllTokens(call_text, WellFormed)
       /\ AllTokens(call_text, CallNotContradictory) )
     => /\ call_pc = "returned"
        /\ call_out.result =
             [i \in 1..Len(Tokens(call_text)) |->
                WantedPair(Tokens(call_text)[i], call_total)]
  /\ CallIs(<<"1", "-", "3", ",", "5">>, ExamplePages)
       => call_pc = "returned" /\ call_out.result = <<<<1, 3>>, <<5, 5>>>>
  /\ CallIs(<<"1", "-", "1", "0", "0">>, ExamplePages)
       => call_pc = "returned" /\ call_out.result = <<<<1, ExamplePages>>>>
  /\ CallIs(<<>>, ExamplePages)
       => call_pc = "returned" /\ call_out.result = <<>>

\* a call that returned two ranges, one of them clamped at the page count
C1_Witness ==
  /\ call_pc = "returned"
  /\ call_total = MaxPages
  /\ AllTokens(call_text, WellFormed)
  /\ Len(call_out.result) = 2
  /\ \E i \in 1..2 : WantedEnd(Tokens(call_text)[i], call_total) > call_total

(***************************************************************************)
(* C2: every pair (start, end) parse_ranges returns satisfies              *)
(* 1 <= start <= end <= page count, for every text and every page count    *)
(* >= 0 for which it returns.                                              *)
(***************************************************************************)
C2_RangeWithinPages ==
  call_pc = "returned"
    => \A i \in 1..Len(call_out.result) :
         /\ 1 <= call_out.result[i][1]
         /\ call_out.result[i][1] <= call_out.result[i][2]
         /\ call_out.result[i][2] <= call_total

(***************************************************************************)
(* C3: parse_ranges raises, returning no ranges, whenever some token is a  *)
(* bare "-" or some token A-B has its start after its end once both are    *)
(* clamped into [1, page count]; parse("-", 10) and parse("5-2", 10)       *)
(* raise. An out-of-range number alone never makes it raise: a text whose  *)
(* tokens are all well formed and none contradictory is parsed.            *)
(***************************************************************************)
C3_RaisesOnBareDashOrReversed ==
  /\ ( /\ CallEnded
       /\ \/ SomeToken(call_text, IsBareDash)
          \/ SomeToken(call_text, CallContradictory) )
     => call_pc = "raised" /\ call_out.result = <<>>
  /\ CallIs(<<"-">>, ExamplePages) => call_pc = "raised"
  /\ CallIs(<<"5", "-", "2">>, ExamplePages) => call_pc = "raised"
  /\ ( /\ CallEnded
       /\ AllTokens(call_text, WellFormed)
       /\ AllTokens(call_text, CallNotContradictory) )
     => call_pc = "returned"

\* a call that raised on a token A-B whose start is beyond the last page and
\* is still after its end once clamped
C3_Witness ==
  /\ call_pc = "raised"
  /\ call_total = MaxPages
  /\ Len(Tokens(call_text)) = 1
  /\ IsContradictory(Tokens(call_text)[1], call_total)
  /\ WantedStart(Tokens(call_text)[1], call_total) > call_total

(***************************************************************************)
(* C4: parse_ranges raises whenever, in some token, a position where a     *)
(* page number is expected (the whole token when it has no "-", otherwise  *)
(* the part left of the first "-" or the part right of it) is non-empty    *)
(* and not a plain sequence of decimal digits.                             *)
(***************************************************************************)
HasBadNumber(t) == \E s \in NumberPositions(t) : s # <<>> /\ ~IsPageNumber(s)

C4_RaisesOnNonNumeric ==
  (CallEnded /\ SomeToken(call_text, HasBadNumber)) => call_pc = "raised"

(***************************************************************************)
(* C5: for each of the three actions that take a range expression (Split   *)
(* Extract Ranges, Watermark Apply to Single PDF, Watermark Apply to       *)
(* Folder), a click whose range text the parser rejects is answered at     *)
(* once by an error dialog and starts no background job: no thread is      *)
(* spawned, nothing is put on the progress queue, and no job ever rejects  *)
(* a range text on its own.                                                *)
(***************************************************************************)
\* the step is a click handled by op
Clicked(op) == last' # last /\ last'.op = op

\* the Split page holds a readable file and a range text the parser rejects
SplitInvalid ==
  /\ IsPdf(split_path)
  /\ fs[split_path] >= 0
  /\ Strip(ent) # <<>>
  /\ Collect(RangeStrings(Strip(ent)), fs[split_path]).outcome = "ValueError"

\* the Watermark page holds a readable file and a range text the parser rejects
SingleInvalid ==
  /\ IsPdf(wm_src)
  /\ fs[wm_src] >= 0
  /\ EntryRaises(range_entry, fs[wm_src])

\* the Watermark page holds a folder and a range text the parser rejects for
\* every file that can be read
FolderInvalid ==
  /\ wm_src = Folder
  /\ \A p \in DOMAIN fs : fs[p] >= 0 => EntryRaises(range_entry, fs[p])

RejectedInJob(thread) == "raised" \in DOMAIN thread /\ thread.raised

C5_InvalidRangeStartsNoJob ==
  [][ /\ ( \/ Clicked("extract") /\ SplitInvalid
           \/ Clicked("apply_to_single") /\ SingleInvalid
           \/ Clicked("apply_to_folder") /\ FolderInvalid )
         => /\ dialog'.kind = "error"
            /\ threads' = threads
            /\ progress_queue' = progress_queue
      /\ \A t \in 1..MaxThreads : ~RejectedInJob(threads'[t]) ]_vars

(***************************************************************************)
(* C6: after any sequence of insert/append, remove and move operations the *)
(* length of the collection is its initial length (0, as after a load)     *)
(* plus the number of pages inserted minus the number removed; a move,     *)
(* which counts as neither, never changes the length.                      *)
(***************************************************************************)
C6_LengthAccounting == Len(page_widgets) = inserted - removed

\* pages were inserted, one was removed and a card was then moved
C6_Witness ==
  /\ inserted >= 2
  /\ removed >= 1
  /\ last.op = "on_drag_motion"
  /\ last.target # last.current

(***************************************************************************)
(* C7: in every step, two cards that are in the collection before and      *)
(* after it and of which neither is the card dragged in that step keep     *)
(* their relative order; hence over any sequence of operations cards that  *)
(* were never dragged keep their relative order.                           *)
(***************************************************************************)
Precedes(ws, a, b) == IndexOf(ws, a) < IndexOf(ws, b)

Kept == Range(page_widgets) \cap Range(page_widgets')

DraggedNow == IF last'.op = "on_drag_motion" THEN {last'.card} ELSE {}

C7_StableOrder ==
  [][\A a \in Kept \ DraggedNow, b \in Kept \ DraggedNow :
       Precedes(page_widgets, a, b) => Precedes(page_widgets', a, b)]_vars

\* a card was dragged across two others
C7_Witness ==
  /\ last.op = "on_drag_motion"
  /\ Len(page_widgets) >= 3
  /\ last.target - last.current >= 2 \/ last.current - last.target >= 2

(***************************************************************************)
(* C8: a drag motion whose target index equals the dragged card's current  *)
(* index leaves the collection the identical sequence of the same cards    *)
(* and performs no re-layout of the grid.                                  *)
(***************************************************************************)
C8_MoveToSameIndexIsNoOp ==
  [][(last' # last /\ last'.op = "on_drag_motion" /\ last'.target = last'.current)
       => /\ page_widgets' = page_widgets
          /\ grid' = grid
          /\ ~last'.reflow]_vars

\* a motion over the dragged card's own cell, other cards being there
C8_Witness ==
  /\ last.op = "on_drag_motion"
  /\ last.card # NoCard
  /\ last.target = last.current
  /\ Len(page_widgets) >= 2

(***************************************************************************)
(* C9: the insert path of _append_to_grid, given k pages and an index idx  *)
(* on a collection of length L, puts the k pages at positions              *)
(* min(idx, L) .. min(idx, L)+k-1, contiguously and in source-page order;  *)
(* an index beyond the end gives what append gives; the cards before and   *)
(* after that position keep their order.                                   *)
(***************************************************************************)
InsertStep == last' # last /\ last'.op = "_append_to_grid" /\ last'.idx # NoIdx

C9_InsertAtClampedIndex ==
  [][InsertStep =>
       LET L == Len(page_widgets)
           k == last'.count
           first == last'.card
           at == IF last'.idx > L THEN L ELSE last'.idx
       IN  /\ Len(page_widgets') = L + k
           /\ \A j \in 0..(k - 1) :
                /\ page_widgets'[at + 1 + j] = first + j
                /\ cards'[first + j].orig_index = j
                /\ cards'[first + j].source_path = cards'[first].source_path
           /\ \A i \in 1..at : page_widgets'[i] = page_widgets[i]
           /\ \A i \in (at + 1)..L : page_widgets'[i + k] = page_widgets[i]
           /\ last'.idx >= L =>
                page_widgets' = page_widgets \o [j \in 1..k |-> first + j - 1]]_vars

\* two pages were inserted at an index beyond the end of the collection
C9_Witness ==
  /\ last.op = "_append_to_grid"
  /\ last.count >= 2
  /\ last.idx # NoIdx
  /\ last.idx > Len(page_widgets) - last.count

(***************************************************************************)
(* C10 as claimed: the rotation stored in a card is in 0..359 after any    *)
(* number of rotate operations.                                            *)
(***************************************************************************)
C10_StoredRotationReduced ==
  \A c \in 1..Len(cards) : cards[c].rotation \in 0..359

(***************************************************************************)
(* C10 as amended: rotate adds 90 to the stored rotation and stores the    *)
(* sum as it is: the stored rotation is 90 times the number of rotate      *)
(* clicks, which reaches 360 and more; it is only its value modulo 360,    *)
(* the one save applies, that is in 0..359.                                *)
(***************************************************************************)
C10_StoredRotationCumulative ==
  \A c \in 1..Len(cards) :
    /\ cards[c].rotation = 90 * clicks[c]
    /\ cards[c].rotation % 360 \in {0, 90, 180, 270}

\* a card was rotated a full turn and more
C10_Witness == \E c \in 1..Len(cards) : cards[c].rotation > 360

(***************************************************************************)
(* C11: the rotation the save job applies to a page is 90 times the number *)
(* of clicks on its card's rotate button, modulo 360, a value in           *)
(* {0, 90, 180, 270}; after four clicks, or any multiple of four, it is 0  *)
(* and the job applies no rotation. A click on the rotate button changes   *)
(* neither the original index nor the source path of any card.             *)
(***************************************************************************)
\* the save job t hands a page to the writer in this step
Writes(t) ==
  /\ threads[t].kind = "save"
  /\ threads'[t].kind = "save"
  /\ Len(threads'[t].written) = Len(threads[t].written) + 1

LastWritten(t) == threads'[t].written[Len(threads'[t].written)]

C11_SaveAppliesClicksMod360 ==
  [][ /\ \A t \in DOMAIN threads :
           Writes(t) =>
             /\ LastWritten(t).rot = (90 * clicks[LastWritten(t).card]) % 360
             /\ LastWritten(t).rot \in {0, 90, 180, 270}
             /\ clicks[LastWritten(t).card] % 4 = 0 => LastWritten(t).rot = 0
      /\ clicks' # clicks =>
           \A c \in 1..Len(cards) :
             /\ cards'[c].orig_index = cards[c].orig_index
             /\ cards'[c].source_path = cards[c].source_path ]_vars

\* a card rotated four times before Save was clicked was written unrotated
C11_Witness ==
  \E t \in DOMAIN threads :
    /\ threads[t].kind = "save"
    /\ \E k \in 1..Len(threads[t].written) :
         /\ threads[t].rotations[threads[t].written[k].card] = 360
         /\ clicks[threads[t].written[k].card] = 4
         /\ threads[t].written[k].rot = 0

(***************************************************************************)
(* C12: Save writes the pages in collection order: when the save job has   *)
(* written the output, its page sequence is the sequence of (source path,  *)
(* original index) of the collection from its first to its last element,   *)
(* be it the collection as it was at the click on Save or as it is then.   *)
(***************************************************************************)
\* (source path, original index) of the cards of ws, in order
PagesOf(ws) ==
  [k \in 1..Len(ws) |-> <<cards[ws[k]].source_path, cards[ws[k]].orig_index>>]

\* (source path, original index) of the pages a save job has written
PagesWritten(thread) ==
  [k \in 1..Len(thread.written) |->
     <<thread.written[k].source_path, thread.written[k].orig_index>>]

\* the save job t writes the output file in this step
WritesOutput(t) ==
  /\ threads[t].kind = "save"
  /\ threads[t].pc = "loop"
  /\ threads'[t].pc = "finished"
  /\ threads'[t].dones = 1

C12_SaveWritesCollectionOrder ==
  [][ \A t \in DOMAIN threads :
        WritesOutput(t) =>
          \/ PagesWritten(threads'[t]) = PagesOf(threads[t].snapshot)
          \/ PagesWritten(threads'[t]) = PagesOf(page_widgets) ]_vars

(***************************************************************************)
(* C13: the save job works on a snapshot of the collection taken at the    *)
(* click on Save: whatever is removed, reordered or rotated while the job  *)
(* runs, the cards written are the cards of the collection at the click,   *)
(* in that order, with the rotations they had then; and no step of the job *)
(* changes the collection or a card.                                       *)
(***************************************************************************)
\* a step of the save job t
SaveStep(t) ==
  /\ threads[t].kind = "save"
  /\ threads'[t].kind = "save"
  /\ threads'[t] # threads[t]

C13_SaveWritesSnapshot ==
  [][ \A t \in DOMAIN threads :
        /\ WritesOutput(t) =>
             /\ [k \in 1..Len(threads'[t].written) |-> threads'[t].written[k].card]
                  = threads[t].snapshot
             /\ \A k \in 1..Len(threads'[t].written) :
                  threads'[t].written[k].rot
                    = threads[t].rotations[threads'[t].written[k].card] % 360
        /\ SaveStep(t) => UNCHANGED <<page_widgets, cards>> ]_vars

(***************************************************************************)
(* C14: at most one background job is in flight against the organizer's    *)
(* collection at any time: while a render job (load, append, insert) or a  *)
(* save job has not finished, no second such job is running.               *)
(***************************************************************************)
\* the render and save jobs that have not finished
InFlight ==
  {t \in DOMAIN threads :
     threads[t].kind \in {"render", "save"} /\ threads[t].pc # "finished"}

C14_OneJobInFlight == Cardinality(InFlight) <= 1

(***************************************************************************)
(* C15: the events are applied in the order in which they were put on the  *)
(* queue. Whatever is put is put behind the events that are pending, a     *)
(* tick of the poll takes everything that is pending, and what the tick    *)
(* leaves on the indicator, the status label and the message box is what   *)
(* the last pending event that sets each of them says, so that of two      *)
(* events of a job the later one is applied later, also when the job's     *)
(* events are drained over several ticks.                                  *)
(***************************************************************************)
IsPrefix(q, r) == Len(q) <= Len(r) /\ SubSeq(r, 1, Len(q)) = q

SetsIndicator(e) == e.typ \in {"progress", "done", "error"}

SetsStatus(e) == e.typ \in {"status", "done", "error"}

ShowsNotice(e) == e.typ \in {"done", "error"}

\* the position of the last event of q that P holds of, 0 when there is none
LastThat(q, P(_)) ==
  IF \E k \in 1..Len(q) : P(q[k])
    THEN CHOOSE k \in 1..Len(q) : P(q[k]) /\ \A j \in (k + 1)..Len(q) : ~P(q[j])
    ELSE 0

IndicatorOf(e) == IF e.typ = "progress" THEN e.payload ELSE 0

StatusOf(e) ==
  IF e.typ = "status" THEN e.payload
  ELSE IF e.typ = "done" THEN Text("Done") ELSE Text("Error")

NoticeKindOf(e) == IF e.typ = "done" THEN "info" ELSE "error"

\* the step is a tick of the poll with events pending
Ticks == progress_queue # <<>> /\ progress_queue' = <<>>

C15_AppliedInQueueOrder ==
  [][ /\ ~Ticks => IsPrefix(progress_queue, progress_queue')
      /\ Ticks =>
           /\ progress_var' =
                IF LastThat(progress_queue, SetsIndicator) = 0 THEN progress_var
                ELSE IndicatorOf(progress_queue[LastThat(progress_queue, SetsIndicator)])
           /\ status' =
                IF LastThat(progress_queue, SetsStatus) = 0 THEN status
                ELSE StatusOf(progress_queue[LastThat(progress_queue, SetsStatus)])
           /\ IF LastThat(progress_queue, ShowsNotice) = 0 THEN dialog' = dialog
              ELSE dialog'.kind =
                     NoticeKindOf(progress_queue[LastThat(progress_queue, ShowsNotice)]) ]_vars

\* a save job's events are drained over several ticks: those of its first
\* page are applied, those of its second page are pending
C15_Witness ==
  /\ status = Msg("Saving page", 1, 2, "")
  /\ progress_var = 50
  /\ \E k \in 1..Len(progress_queue) :
       progress_queue[k] = Event("status", Msg("Saving page", 2, 2, ""))

(***************************************************************************)
(* C16: every tick of the poll drains all the events that are pending and  *)
(* applies them: a progress event sets the indicator to its payload, a     *)
(* number in 0..100; a status event sets the status label; a done event    *)
(* shows a success notice and an error event a failure notice, and both    *)
(* reset the indicator to 0, so that the indicator is 0 right after a done *)
(* or an error event is applied.                                           *)
(***************************************************************************)
\* the event the tick applies last
LastPending == progress_queue[Len(progress_queue)]

C16_PollDrainsAndApplies ==
  [][ Ticks =>
        /\ \A k \in 1..Len(progress_queue) :
             progress_queue[k].typ = "progress" => progress_queue[k].payload \in 0..100
        /\ LastPending.typ = "progress" => progress_var' = LastPending.payload
        /\ LastPending.typ = "status" => status' = LastPending.payload
        /\ LastPending.typ = "done" =>
             dialog'.kind = "info" /\ progress_var' = 0
        /\ LastPending.typ = "error" =>
             dialog'.kind = "error" /\ progress_var' = 0 ]_vars

(***************************************************************************)
(* C17: a background job whose body fails part-way, for example because    *)
(* the destination cannot be written, puts exactly one error event and no  *)
(* done event on the queue.  Stated of the split, the single watermark and *)
(* the batch watermark job, each of which has something to write.          *)
(***************************************************************************)
\* the job of thread t has ended and its destination could not be written
FailedWriting(t) ==
  /\ threads[t].kind \in {"split", "watermark", "batch"}
  /\ threads[t].pc = "finished"
  /\ ~threads[t].out_ok
  /\ threads[t].total > 0

C17_FailingJobEmitsOneError ==
  \A t \in DOMAIN threads :
    FailedWriting(t) => threads[t].errors = 1 /\ threads[t].dones = 0

(***************************************************************************)
(* C18: after every re-layout of the grid the card at index i of the       *)
(* collection is in row i div 5 and column i mod 5, for every i from 0 to  *)
(* n - 1, so that row * 5 + column = i and no two cards share a cell.      *)
(***************************************************************************)
C18_ReflowPlacesByIndex ==
  last.reflow =>
    /\ DOMAIN grid = Range(page_widgets)
    /\ \A i \in 0..(Len(page_widgets) - 1) :
         /\ grid[page_widgets[i + 1]] = <<i \div grid_cols, i % grid_cols>>
         /\ grid[page_widgets[i + 1]][1] * grid_cols + grid[page_widgets[i + 1]][2] = i
    /\ \A c, d \in DOMAIN grid : c # d => grid[c] # grid[d]

\* a drag has moved a card of a collection that fills more than one row
C18_Witness ==
  /\ last.op = "on_drag_motion"
  /\ last.reflow
  /\ Len(page_widgets) > grid_cols
  /\ grid[page_widgets[Len(page_widgets)]] = <<1, Len(page_widgets) - grid_cols - 1>>

(***************************************************************************)
(* C19: during a drag over a collection of n >= 1 cards, for every pointer *)
(* position (x, y), left of or above the grid and below its last row       *)
(* included, the target is column clamp(x div cellW, 0, 4), row            *)
(* max(0, y div cellH) and index clamp(row * 5 + column, 0, n - 1), which  *)
(* is an index of the collection.                                          *)
(***************************************************************************)
ClampTo(v, lo, hi) == IF v < lo THEN lo ELSE IF v > hi THEN hi ELSE v

TargetIndex(n, x, y, cellW, cellH) ==
  ClampTo((IF y \div cellH < 0 THEN 0 ELSE y \div cellH) * grid_cols
            + ClampTo(x \div cellW, 0, grid_cols - 1),
          0, n - 1)

C19_DragTargetClamped ==
  /\ page_widgets # <<>> =>
       \A x \in PointerX, y \in GridPointerY, wh \in GridWinfoSizes :
         /\ TargetIdx(page_widgets, x, y, wh[1], wh[2])
              = TargetIndex(Len(page_widgets), x, y,
                            CellSize(wh[1], 170), CellSize(wh[2], 250))
         /\ TargetIdx(page_widgets, x, y, wh[1], wh[2]) \in 0..(Len(page_widgets) - 1)
  /\ (last.op = "on_drag_motion" /\ last.card # NoCard) =>
       last.target \in 0..(Len(page_widgets) - 1)

\* a drag has moved the card to the end of a collection of two rows, which
\* is the target of a pointer left of the grid and below its last row
C19_Witness ==
  /\ last.op = "on_drag_motion"
  /\ last.reflow
  /\ Len(page_widgets) > grid_cols
  /\ last.target = Len(page_widgets) - 1
  /\ last.target = TargetIdx(page_widgets, -30, (MaxRows + 1) * 250 + 5, 160, 240)
  /\ -30 \in PointerX
  /\ (MaxRows + 1) * 250 + 5 \in GridPointerY

(***************************************************************************)
(* C20: a drag-motion event that arrives while the collection is empty or  *)
(* while no drag item is set returns at once: it does not read the         *)
(* geometry of the first card, raises no error, and leaves the collection, *)
(* the selection and the grid layout as they are.                          *)
(***************************************************************************)
C20_MotionShortCircuits ==
  [][ (last'.op = "on_drag_motion" /\ (page_widgets = <<>> \/ drag_item = NoCard))
        => /\ last'.outcome = "returned"
           /\ page_widgets' = page_widgets
           /\ selected_card' = selected_card
           /\ grid' = grid ]_vars

\* the motion has returned over an empty collection while a drag item is set
C20_Witness ==
  /\ last.op = "on_drag_motion"
  /\ last.outcome = "returned"
  /\ page_widgets = <<>>
  /\ drag_item # NoCard

(***************************************************************************)
(* C21: once the render that a load (Open PDF) started has added its pages *)
(* the collection holds exactly the pages of that file, in the order of    *)
(* the file, each with rotation 0, whatever it held before and whatever    *)
(* renders were under way when the load was clicked.                       *)
(***************************************************************************)
\* the grid update of a render that a load started has just run
LoadAdded == last.op = "_append_to_grid" /\ last.outcome = "load"

C21_LoadReplacesCollection ==
  LoadAdded =>
    /\ page_widgets = [i \in 1..last.count |-> last.card + i - 1]
    /\ \A i \in 1..Len(page_widgets) :
         /\ cards[page_widgets[i]].orig_index = i - 1
         /\ cards[page_widgets[i]].source_path = cards[last.card].source_path
         /\ cards[page_widgets[i]].rotation = 0

(***************************************************************************)
(* C22: the collection is changed only by steps of the UI thread.  No step *)
(* of a worker thread adds, removes or reorders cards; the render worker   *)
(* hands the pages it rendered to a callback that it schedules on the UI   *)
(* thread, and only that callback adds them.                               *)
(***************************************************************************)
\* thread t is running and takes the step
WorkerStep(t) == threads[t].kind # "none" /\ threads'[t] # threads[t]

\* the render worker t ends without an error
RenderEnds(t) ==
  /\ threads[t].kind = "render"
  /\ threads[t].pc = "loop"
  /\ threads'[t].pc = "finished"

C22_OnlyUiThreadMutates ==
  [][ \A t \in DOMAIN threads :
        /\ WorkerStep(t) =>
             /\ page_widgets' = page_widgets
             /\ cards' = cards
             /\ grid' = grid
        /\ RenderEnds(t) =>
             /\ Len(timers') = Len(timers) + 1
             /\ timers'[Len(timers')].insert_idx = threads[t].insert_idx
             /\ LET handed == timers'[Len(timers')].page_data
                IN  /\ Len(handed) = fs[threads[t].path]
                    /\ \A i \in 1..Len(handed) :
                         /\ handed[i].source_path = threads[t].path
                         /\ handed[i].orig_index = i - 1
        /\ Len(cards') # Len(cards) =>
             /\ last'.op = "_append_to_grid"
             /\ timers' = Tail(timers)
             /\ cards' = cards \o Head(timers).page_data ]_vars

\* a render worker has ended, its pages are handed over and not yet added
C22_Witness ==
  /\ \E t \in DOMAIN threads :
       /\ threads[t].kind = "render"
       /\ threads[t].pc = "finished"
       /\ threads[t].errors = 0
  /\ timers # <<>>
  /\ cards = <<>>
  /\ page_widgets = <<>>

(***************************************************************************)
(* C23: in the batch watermark job a failure while one file is processed   *)
(* is logged and skipped and never aborts the batch: every file of the     *)
(* folder is processed, each with its progress and status event, and the   *)
(* job ends with its completion event.                                     *)
(***************************************************************************)
C23_BatchNeverAborts ==
  \A t \in DOMAIN threads :
    (threads[t].kind = "batch" /\ threads[t].pc = "finished") =>
      /\ threads[t].i = threads[t].total
      /\ threads[t].dones = 1
      /\ threads[t].errors = 0

(***************************************************************************)
(* C24: a drag motion over a non-empty collection whose target index       *)
(* differs from the current index of the dragged card leaves that card at  *)
(* exactly the target index, the collection a permutation of what it was,  *)
(* and the grid laid out anew for the new order.                           *)
(***************************************************************************)
Count(ws, c) == Cardinality({i \in 1..Len(ws) : ws[i] = c})

C24_DragMovesToTarget ==
  [][ (/\ last'.op = "on_drag_motion"
       /\ last'.card # NoCard
       /\ last'.target # last'.current)
        => /\ last'.card = drag_item
           /\ page_widgets[last'.current + 1] = drag_item
           /\ page_widgets'[last'.target + 1] = drag_item
           /\ Len(page_widgets') = Len(page_widgets)
           /\ \A c \in Range(page_widgets) \cup Range(page_widgets') :
                Count(page_widgets', c) = Count(page_widgets, c)
           /\ last'.reflow
           /\ DOMAIN grid' = Range(page_widgets')
           /\ \A i \in 1..Len(page_widgets') :
                grid'[page_widgets'[i]] = <<(i - 1) \div grid_cols, (i - 1) % grid_cols>> ]_vars

\* the card was dragged to the right across at least one card, into the
\* second row of the grid
C24_Witness ==
  /\ last.op = "on_drag_motion"
  /\ last.card # NoCard
  /\ last.target >= grid_cols
  /\ last.current + 2 <= last.target
  /\ page_widgets[last.target + 1] = last.card
  /\ grid[last.card][1] = 1

(***************************************************************************)
(* C25: every job started through run_worker that ends without a failure   *)
(* has put exactly one done event on the queue, as its last event, and no  *)
(* job puts both a done and an error event.                                *)
(***************************************************************************)
C25_JobEndsWithOneDone ==
  \A t \in DOMAIN threads :
    (threads[t].kind # "none" /\ threads[t].pc = "finished") =>
      /\ threads[t].errors = 0 => threads[t].dones = 1
      /\ threads[t].errors + threads[t].dones <= 1

(***************************************************************************)
(* C26: every event put on the progress queue is eventually taken off and  *)
(* applied by the poll, which arms itself again after every tick whatever  *)
(* it applied, done and error events included; so once all jobs have       *)
(* finished the queue eventually becomes empty and stays empty.            *)
(***************************************************************************)
\* no job is running and no callback of a job is scheduled
Idle == (\A t \in DOMAIN threads : threads[t].kind = "none") /\ timers = <<>>

C26_QueueEventuallyDrained ==
  /\ []poll_after
  /\ (progress_queue # <<>>) ~> (progress_queue = <<>>)
  /\ <>[]Idle => <>[](progress_queue = <<>>)

\* a tick has shown the notice of a done event and events are pending again
C26_Witness ==
  /\ dialog.kind = "info"
  /\ status = Text("Done")
  /\ progress_queue # <<>>
  /\ poll_after

(***************************************************************************)
(* C27: when a source page (sourcePath, originalIndex) is in the           *)
(* collection more than once, save writes each occurrence with the         *)
(* rotation of its own card, modulo 360, whatever the rotations of the     *)
(* occurrences of that source page written before it.                      *)
(***************************************************************************)
C27_DuplicatesKeepOwnRotation ==
  \A t \in DOMAIN threads :
    threads[t].kind = "save" =>
      \A k \in 1..Len(threads[t].written) :
        AddedRotations(threads[t].written, k) = {threads[t].written[k].rot}

(***************************************************************************)
(* C28: the pages added with a card's insert-before or insert-after button *)
(* are, when they are added to the collection, contiguous and immediately  *)
(* before or immediately after that card, also when other cards were       *)
(* removed, dragged or added between the click and the end of the render.  *)
(***************************************************************************)
\* the grid update of an insert runs in this step, the card of the insert
\* being in the collection
InsertAdds ==
  /\ timers # <<>>
  /\ Head(timers).target \in Range(page_widgets)
  /\ timers' = Tail(timers)
  /\ last'.op = "_append_to_grid"

C28_InsertedNextToTarget ==
  [][ InsertAdds =>
        LET target == Head(timers).target
            n == Len(Head(timers).page_data)
            first == Len(cards) + 1
        IN  /\ target \in Range(page_widgets')
            /\ \A i \in 1..n :
                 /\ first + i - 1 \in Range(page_widgets')
                 /\ IndexOf(page_widgets', first + i - 1)
                      = IndexOf(page_widgets', first) + i - 1
            /\ IF Head(timers).before
                 THEN IndexOf(page_widgets', target) = IndexOf(page_widgets', first) + n
                 ELSE IndexOf(page_widgets', target) = IndexOf(page_widgets', first) - 1 ]_vars

(***************************************************************************)
(* C29: after any sequence of loads, appends, inserts, selections,         *)
(* deselections, drags and removals the selected card is none or a card of *)
(* the collection; a card that was removed, or cleared by a load, is not   *)
(* left selected, and at most one card is shown selected.                  *)
(***************************************************************************)
Highlighted == {c \in 1..Len(cards) : cards[c].highlight}

C29_SelectionInCollection ==
  /\ selected_card \in {NoCard} \cup Range(page_widgets)
  /\ Highlighted = {selected_card} \ {NoCard}
  /\ Cardinality(Highlighted) <= 1

\* the card that was pressed, and selected by that, has been removed while
\* other cards stay
C29_Witness ==
  /\ last.op = "remove_page_card"
  /\ drag_item = last.card
  /\ selected_card = NoCard
  /\ page_widgets # <<>>

====
